---- MODULE Spec2Model ----
(***************************************************************************)
(* A model of three pieces of Resolwe:                                     *)
(*   - the executor bootstrap  (resolwe/flow/executors/__main__.py),       *)
(*   - CheckQueryParamsMixin   (resolwe/flow/filters.py),                  *)
(*   - RelationSerializer      (resolwe/flow/serializers/relation.py).     *)
(* Each piece has its own specification over its own variables; the        *)
(* variables of the other pieces stay at their initial values.             *)
(***************************************************************************)
EXTENDS Integers, Sequences, FiniteSets, TLC

(***************************************************************************)
(* Bounds of the model.                                                    *)
(***************************************************************************)
\* logging completion handles that may be appended to logging_future_list
MaxHandles == 2
\* asyncio tasks that may be created besides the bootstrap's own coroutines
MaxTasks == 2
\* length of the process script file, in characters
MaxLen == 2

VARIABLES
    \* ---- executor bootstrap ----
    moduleArg,            \* what sys.argv holds for the "module" argument
    fileContent,          \* characters of the file ExecutorFiles.PROCESS_SCRIPT
    pc,                   \* position of the __main__ script
    st,                   \* status of each awaited step
    calls,                \* how many times each step was started
    abortedAt,            \* the step whose exception ended the script, or "none"
    logging_future_list,  \* the list handed to configure_logging
    hstate,               \* state of every logging completion handle
    tstate,               \* state of every other asyncio task of the loop
    drainSet,             \* the handles gather() was called with at line 70
    finalSet,             \* the tasks gather() was called with at line 82
    runArgs,              \* the arguments executor.run() was called with
    \* ---- CheckQueryParamsMixin ----
    filterset,            \* the filterset class serving the request
    query_params,         \* keys of request.query_params
    fieldsClean,          \* whether the form's own field validation passes
    formErrors,           \* errors added to the form by validate_query_params
    validResult,          \* what is_valid() last returned, or "none"
    \* ---- RelationSerializer ----
    relFields,            \* stored fields of every Relation row
    parts,                \* the stored RelationPartition rows
    nextId,               \* next primary key of RelationPartition
    last                  \* the last update() call: its arguments and outcome

bvars == <<moduleArg, fileContent, pc, st, calls, abortedAt,
           logging_future_list, hstate, tstate, drainSet, finalSet, runArgs>>

fvars == <<filterset, query_params, fieldsClean, formErrors, validResult>>

rvars == <<relFields, parts, nextId, last>>

vars == <<bvars, fvars, rvars>>

(***************************************************************************)
(* Executor bootstrap: values.                                             *)
(***************************************************************************)
\* "valid": <module>.run imports and has FlowExecutor; "import_error":
\* import_module fails; "no_class": getattr fails; "missing": argparse exits.
ModuleArgs == {"valid", "import_error", "no_class", "missing"}

\* the steps the script waits for on the event loop
Steps == {"init", "run", "logdrain", "deinit", "finaldrain"}

Handles == 1..MaxHandles
Tasks == 1..MaxTasks

\* characters of a script file: an ordinary character, carriage return, line feed
Chars == {"a", "CR", "LF"}

RECURSIVE SeqsUpTo(_)
SeqsUpTo(n) ==
    IF n = 0 THEN {<< >>}
    ELSE LET shorter == SeqsUpTo(n - 1)
         IN  shorter \cup {Append(s, c) : s \in {x \in shorter : Len(x) = n - 1}, c \in Chars}

Contents == SeqsUpTo(MaxLen)

\* the script the full bootstrap is run with
SampleScript == <<"a", "CR", "LF">>

\* DATA["id"] of global_settings
DataId == "DATA.id"

NoArgs == [called |-> FALSE]

Range(s) == {s[i] : i \in DOMAIN s}

\* TextRead on a file opened without newline translation (newline="")
TextReadUntranslated(s) == s

(***************************************************************************)
(* script_file.read() on a file opened with mode "rt": text mode with the  *)
(* default newline=None, so "\r\n" and a lone "\r" are read as "\n".       *)
(***************************************************************************)
RECURSIVE TextRead(_)
TextRead(s) ==
    IF s = << >> THEN << >>
    ELSE IF Head(s) = "CR"
         THEN IF Len(s) >= 2 /\ s[2] = "LF"
              THEN <<"LF">> \o TextRead(SubSeq(s, 3, Len(s)))
              ELSE <<"LF">> \o TextRead(Tail(s))
         ELSE <<Head(s)>> \o TextRead(Tail(s))

\* the event loop is running: loop.run_until_complete(...) has not returned
LoopRunning == pc \in {"await_init", "await_run", "await_log", "await_deinit", "await_all"}

PendingTasks == {t \in Tasks : tstate[t] = "pending"}
FinishedTasks == {t \in Tasks : tstate[t] \in {"ok", "failed"}}

\* some code is executing on the loop that can log or create tasks: the
\* awaited coroutine itself, or a task that has not finished
CodeRunning ==
    \/ pc \in {"await_init", "await_run", "await_deinit"}
    \/ LoopRunning /\ PendingTasks # {}

BootInitWith(args, contents) ==
    /\ moduleArg \in args
    /\ fileContent \in contents
    /\ pc = "start"
    /\ st = [s \in Steps |-> "idle"]
    /\ calls = [s \in Steps |-> 0]
    /\ abortedAt = "none"
    /\ logging_future_list = << >>
    /\ hstate = [h \in Handles |-> "none"]
    /\ tstate = [t \in Tasks |-> "none"]
    /\ drainSet = {}
    /\ finalSet = {}
    /\ runArgs = NoArgs

\* the bootstrap touches neither a filterset nor the relation tables
BootOnly == UNCHANGED <<fvars, rvars>>

Raise(stage) ==
    /\ pc' = "aborted"
    /\ abortedAt' = stage

(***************************************************************************)
(* Executor bootstrap: the script, statement by statement.                 *)
(***************************************************************************)
\* CallInit with init() scheduled on the loop but not awaited
CallInitNoAwait ==
    /\ pc = "start"
    /\ pc' = "resolve"
    /\ st' = [st EXCEPT !["init"] = "running"]
    /\ calls' = [calls EXCEPT !["init"] = @ + 1]
    /\ UNCHANGED <<moduleArg, fileContent, abortedAt, logging_future_list,
                   hstate, tstate, drainSet, finalSet, runArgs>>
    /\ BootOnly

\* lines 65-66 and 62: run _sequential(), which awaits manager_commands.init()
CallInit ==
    /\ pc = "start"
    /\ pc' = "await_init"
    /\ st' = [st EXCEPT !["init"] = "running"]
    /\ calls' = [calls EXCEPT !["init"] = @ + 1]
    /\ UNCHANGED <<moduleArg, fileContent, abortedAt, logging_future_list,
                   hstate, tstate, drainSet, finalSet, runArgs>>
    /\ BootOnly

\* line 62: manager_commands.init() returns
InitReturn ==
    /\ pc = "await_init"
    /\ st["init"] = "running"
    /\ st' = [st EXCEPT !["init"] = "done"]
    /\ pc' = "resolve"
    /\ UNCHANGED <<moduleArg, fileContent, calls, abortedAt, logging_future_list,
                   hstate, tstate, drainSet, finalSet, runArgs>>
    /\ BootOnly

\* line 62: manager_commands.init() raises
InitRaise ==
    /\ pc = "await_init"
    /\ st["init"] = "running"
    /\ st' = [st EXCEPT !["init"] = "failed"]
    /\ Raise("init")
    /\ UNCHANGED <<moduleArg, fileContent, calls, logging_future_list,
                   hstate, tstate, drainSet, finalSet, runArgs>>
    /\ BootOnly

\* Resolve that goes on whatever the module argument is
ResolveUnchecked ==
    /\ pc = "resolve"
    /\ pc' = "read"
    /\ UNCHANGED <<moduleArg, fileContent, st, calls, abortedAt, logging_future_list,
                   hstate, tstate, drainSet, finalSet, runArgs>>
    /\ BootOnly

\* lines 41-51: parse the argument, import <module>.run, instantiate FlowExecutor
Resolve ==
    /\ pc = "resolve"
    /\ IF moduleArg = "valid"
       THEN pc' = "read" /\ UNCHANGED abortedAt
       ELSE Raise("resolve")
    /\ UNCHANGED <<moduleArg, fileContent, st, calls, logging_future_list,
                   hstate, tstate, drainSet, finalSet, runArgs>>
    /\ BootOnly

\* lines 52-53: open(ExecutorFiles.PROCESS_SCRIPT, "rt") or script_file.read()
\* raises (no such file, undecodable bytes)
OpenRaise ==
    /\ pc = "read"
    /\ Raise("read")
    /\ UNCHANGED <<moduleArg, fileContent, st, calls, logging_future_list,
                   hstate, tstate, drainSet, finalSet, runArgs>>
    /\ BootOnly

\* lines 52-53: read the script and call executor.run(DATA["id"], script)
CallRun ==
    /\ pc = "read"
    /\ runArgs' = [called |-> TRUE, id |-> DataId, script |-> TextRead(fileContent)]
    /\ st' = [st EXCEPT !["run"] = "running"]
    /\ calls' = [calls EXCEPT !["run"] = @ + 1]
    /\ pc' = "await_run"
    /\ UNCHANGED <<moduleArg, fileContent, abortedAt, logging_future_list,
                   hstate, tstate, drainSet, finalSet>>
    /\ BootOnly

\* line 53 and 66: executor.run() returns, so does _sequential()
RunReturn ==
    /\ pc = "await_run"
    /\ st["run"] = "running"
    /\ st' = [st EXCEPT !["run"] = "done"]
    /\ pc' = "gather_log"
    /\ UNCHANGED <<moduleArg, fileContent, calls, abortedAt, logging_future_list,
                   hstate, tstate, drainSet, finalSet, runArgs>>
    /\ BootOnly

\* RunRaise with the exception caught and the script going on
RunRaiseSwallowed ==
    /\ pc = "await_run"
    /\ st["run"] = "running"
    /\ st' = [st EXCEPT !["run"] = "failed"]
    /\ pc' = "gather_log"
    /\ abortedAt' = "run"
    /\ UNCHANGED <<moduleArg, fileContent, calls, logging_future_list,
                   hstate, tstate, drainSet, finalSet, runArgs>>
    /\ BootOnly

\* line 53 and 66: executor.run() raises; run_until_complete re-raises
RunRaise ==
    /\ pc = "await_run"
    /\ st["run"] = "running"
    /\ st' = [st EXCEPT !["run"] = "failed"]
    /\ Raise("run")
    /\ UNCHANGED <<moduleArg, fileContent, calls, logging_future_list,
                   hstate, tstate, drainSet, finalSet, runArgs>>
    /\ BootOnly

\* GatherLogging with the gather scheduled but the loop not run until it completes
GatherLoggingNoWait ==
    /\ pc = "gather_log"
    /\ drainSet' = Range(logging_future_list)
    /\ st' = [st EXCEPT !["logdrain"] = "running"]
    /\ calls' = [calls EXCEPT !["logdrain"] = @ + 1]
    /\ pc' = "call_deinit"
    /\ UNCHANGED <<moduleArg, fileContent, abortedAt, logging_future_list,
                   hstate, tstate, finalSet, runArgs>>
    /\ BootOnly

\* line 70: asyncio.gather(*logging_future_list) is built from the handles the
\* list holds now, and the loop is run until that gather completes
GatherLogging ==
    /\ pc = "gather_log"
    /\ drainSet' = Range(logging_future_list)
    /\ st' = [st EXCEPT !["logdrain"] = "running"]
    /\ calls' = [calls EXCEPT !["logdrain"] = @ + 1]
    /\ pc' = "await_log"
    /\ UNCHANGED <<moduleArg, fileContent, abortedAt, logging_future_list,
                   hstate, tstate, finalSet, runArgs>>
    /\ BootOnly

\* line 70: every gathered handle has a result; run_until_complete returns
LogDrainReturn ==
    /\ pc = "await_log"
    /\ \A h \in drainSet : hstate[h] = "ok"
    /\ st' = [st EXCEPT !["logdrain"] = "done"]
    /\ pc' = "call_deinit"
    /\ UNCHANGED <<moduleArg, fileContent, calls, abortedAt, logging_future_list,
                   hstate, tstate, drainSet, finalSet, runArgs>>
    /\ BootOnly

\* LogDrainRaise as gather(..., return_exceptions=True) would behave: the
\* exception is a result like any other
LogDrainSwallow ==
    /\ pc = "await_log"
    /\ \E h \in drainSet : hstate[h] = "failed"
    /\ \A h \in drainSet : hstate[h] \in {"ok", "failed"}
    /\ st' = [st EXCEPT !["logdrain"] = "done"]
    /\ pc' = "call_deinit"
    /\ UNCHANGED <<moduleArg, fileContent, calls, abortedAt, logging_future_list,
                   hstate, tstate, drainSet, finalSet, runArgs>>
    /\ BootOnly

\* line 70: gather() is called without return_exceptions, so the first gathered
\* handle that holds an exception completes it with that exception, which
\* run_until_complete raises
LogDrainRaise ==
    /\ pc = "await_log"
    /\ \E h \in drainSet : hstate[h] = "failed"
    /\ st' = [st EXCEPT !["logdrain"] = "failed"]
    /\ Raise("logdrain")
    /\ UNCHANGED <<moduleArg, fileContent, calls, logging_future_list,
                   hstate, tstate, drainSet, finalSet, runArgs>>
    /\ BootOnly

\* line 73: loop.run_until_complete(manager_commands.deinit())
CallDeinit ==
    /\ pc = "call_deinit"
    /\ st' = [st EXCEPT !["deinit"] = "running"]
    /\ calls' = [calls EXCEPT !["deinit"] = @ + 1]
    /\ pc' = "await_deinit"
    /\ UNCHANGED <<moduleArg, fileContent, abortedAt, logging_future_list,
                   hstate, tstate, drainSet, finalSet, runArgs>>
    /\ BootOnly

\* line 73: manager_commands.deinit() returns
DeinitReturn ==
    /\ pc = "await_deinit"
    /\ st["deinit"] = "running"
    /\ st' = [st EXCEPT !["deinit"] = "done"]
    /\ pc' = "gather_all"
    /\ UNCHANGED <<moduleArg, fileContent, calls, abortedAt, logging_future_list,
                   hstate, tstate, drainSet, finalSet, runArgs>>
    /\ BootOnly

\* line 73: manager_commands.deinit() raises
DeinitRaise ==
    /\ pc = "await_deinit"
    /\ st["deinit"] = "running"
    /\ st' = [st EXCEPT !["deinit"] = "failed"]
    /\ Raise("deinit")
    /\ UNCHANGED <<moduleArg, fileContent, calls, logging_future_list,
                   hstate, tstate, drainSet, finalSet, runArgs>>
    /\ BootOnly

\* lines 81-82: asyncio.Task.all_tasks() is the set of tasks of the loop that
\* exist now: every unfinished one, and those finished ones that have not been
\* garbage collected (the set holds weak references)
GatherAll ==
    /\ pc = "gather_all"
    /\ \E kept \in SUBSET FinishedTasks : finalSet' = PendingTasks \cup kept
    /\ st' = [st EXCEPT !["finaldrain"] = "running"]
    /\ calls' = [calls EXCEPT !["finaldrain"] = @ + 1]
    /\ pc' = "await_all"
    /\ UNCHANGED <<moduleArg, fileContent, abortedAt, logging_future_list,
                   hstate, tstate, drainSet, runArgs>>
    /\ BootOnly

\* line 82: every gathered task has a result; run_until_complete returns
FinalDrainReturn ==
    /\ pc = "await_all"
    /\ \A t \in finalSet : tstate[t] = "ok"
    /\ st' = [st EXCEPT !["finaldrain"] = "done"]
    /\ pc' = "close"
    /\ UNCHANGED <<moduleArg, fileContent, calls, abortedAt, logging_future_list,
                   hstate, tstate, drainSet, finalSet, runArgs>>
    /\ BootOnly

\* line 82: a gathered task holds an exception, which run_until_complete raises
FinalDrainRaise ==
    /\ pc = "await_all"
    /\ \E t \in finalSet : tstate[t] = "failed"
    /\ st' = [st EXCEPT !["finaldrain"] = "failed"]
    /\ Raise("finaldrain")
    /\ UNCHANGED <<moduleArg, fileContent, calls, logging_future_list,
                   hstate, tstate, drainSet, finalSet, runArgs>>
    /\ BootOnly

\* line 84: loop.close()
LoopClose ==
    /\ pc = "close"
    /\ pc' = "closed"
    /\ UNCHANGED <<moduleArg, fileContent, st, calls, abortedAt, logging_future_list,
                   hstate, tstate, drainSet, finalSet, runArgs>>
    /\ BootOnly

(***************************************************************************)
(* Executor bootstrap: what else happens on the event loop while the       *)
(* script waits in run_until_complete.                                     *)
(***************************************************************************)
\* lines 57-58: a logging call appends its completion handle to the list
LogEmit ==
    /\ CodeRunning
    /\ Len(logging_future_list) < MaxHandles
    /\ LET h == Len(logging_future_list) + 1
       IN  /\ logging_future_list' = Append(logging_future_list, h)
           /\ hstate' = [hstate EXCEPT ![h] = "pending"]
    /\ UNCHANGED <<moduleArg, fileContent, pc, st, calls, abortedAt,
                   tstate, drainSet, finalSet, runArgs>>
    /\ BootOnly

\* a logging completion handle gets its result
HandleDone(h) ==
    /\ LoopRunning
    /\ hstate[h] = "pending"
    /\ hstate' = [hstate EXCEPT ![h] = "ok"]
    /\ UNCHANGED <<moduleArg, fileContent, pc, st, calls, abortedAt,
                   logging_future_list, tstate, drainSet, finalSet, runArgs>>
    /\ BootOnly

\* a logging completion handle gets an exception
HandleFail(h) ==
    /\ LoopRunning
    /\ hstate[h] = "pending"
    /\ hstate' = [hstate EXCEPT ![h] = "failed"]
    /\ UNCHANGED <<moduleArg, fileContent, pc, st, calls, abortedAt,
                   logging_future_list, tstate, drainSet, finalSet, runArgs>>
    /\ BootOnly

\* running code creates a task on the loop (the stragglers of line 75)
TaskSpawn ==
    /\ CodeRunning
    /\ \E t \in Tasks :
          /\ tstate[t] = "none"
          /\ \A u \in Tasks : u < t => tstate[u] # "none"
          /\ tstate' = [tstate EXCEPT ![t] = "pending"]
    /\ UNCHANGED <<moduleArg, fileContent, pc, st, calls, abortedAt,
                   logging_future_list, hstate, drainSet, finalSet, runArgs>>
    /\ BootOnly

\* a task finishes with a result
TaskDone(t) ==
    /\ LoopRunning
    /\ tstate[t] = "pending"
    /\ tstate' = [tstate EXCEPT ![t] = "ok"]
    /\ UNCHANGED <<moduleArg, fileContent, pc, st, calls, abortedAt,
                   logging_future_list, hstate, drainSet, finalSet, runArgs>>
    /\ BootOnly

\* a task finishes with an exception
TaskFail(t) ==
    /\ LoopRunning
    /\ tstate[t] = "pending"
    /\ tstate' = [tstate EXCEPT ![t] = "failed"]
    /\ UNCHANGED <<moduleArg, fileContent, pc, st, calls, abortedAt,
                   logging_future_list, hstate, drainSet, finalSet, runArgs>>
    /\ BootOnly

\* the statements of _sequential() and run_executor()
SequentialNext ==
    \/ CallInit
    \/ InitReturn
    \/ InitRaise
    \/ Resolve
    \/ OpenRaise
    \/ CallRun
    \/ RunReturn
    \/ RunRaise

\* the statements of the script after _sequential()
ShutdownNext ==
    \/ GatherLogging
    \/ LogDrainReturn
    \/ LogDrainRaise
    \/ CallDeinit
    \/ DeinitReturn
    \/ DeinitRaise
    \/ GatherAll
    \/ FinalDrainReturn
    \/ FinalDrainRaise
    \/ LoopClose

\* the rest of the event loop
LoopNext ==
    \/ LogEmit
    \/ TaskSpawn
    \/ \E h \in Handles : HandleDone(h) \/ HandleFail(h)
    \/ \E t \in Tasks : TaskDone(t) \/ TaskFail(t)

BootNext == SequentialNext \/ ShutdownNext \/ LoopNext

(***************************************************************************)
(* CheckQueryParamsMixin.                                                  *)
(***************************************************************************)
\* keys one request may carry
MaxParams == 3
\* calls of is_valid() on one filterset
MaxValidations == 2

RELATED_LOOKUPS == {"exact", "in"}
NUMBER_LOOKUPS == {"exact", "in", "gt", "gte", "lt", "lte", "isnull"}
TEXT_LOOKUPS == {"exact", "iexact", "contains", "icontains", "in", "startswith",
                 "istartswith", "isnull"}
DATE_LOOKUPS == {"exact", "gt", "gte", "lt", "lte", "isnull"}
DATETIME_LOOKUPS == DATE_LOOKUPS \cup {"date", "time"}
SLUG_LOOKUPS == {"exact", "in"}

\* the name of the filter generated for a field and a lookup of Meta.fields
FilterName(field, lookup) ==
    IF lookup = "exact" THEN field ELSE field \o "__" \o lookup

FilterNames(field, lookups) == {FilterName(field, l) : l \in lookups}

\* BaseResolweFilter: the declared filter and Meta.fields
BaseResolweFilterNames ==
    {"contributor"}
    \cup FilterNames("contributor", {"exact", "in"})
    \cup FilterNames("created", DATETIME_LOOKUPS)
    \cup FilterNames("id", NUMBER_LOOKUPS)
    \cup FilterNames("name", TEXT_LOOKUPS)
    \cup FilterNames("modified", DATETIME_LOOKUPS)
    \cup FilterNames("slug", SLUG_LOOKUPS)
    \cup FilterNames("version", NUMBER_LOOKUPS)

\* the filtersets of the model: one that adds nothing to BaseResolweFilter, and
\* RelationFilter
Filtersets == {"DescriptorSchemaFilter", "RelationFilter"}

\* self.get_filters().keys()
GetFilters(fs) ==
    IF fs = "RelationFilter"
    THEN BaseResolweFilterNames \cup {"category", "collection", "type"}
    ELSE BaseResolweFilterNames

\* CheckQueryParamsMixin.get_always_allowed_arguments
MixinAlwaysAllowedArguments == {"fields", "format", "limit", "offset", "ordering"}

\* GetAlwaysAllowedArguments without RelationFilter's override
GetAlwaysAllowedArgumentsNoOverride(fs) == MixinAlwaysAllowedArguments

\* get_always_allowed_arguments of the filterset class (RelationFilter overrides it)
GetAlwaysAllowedArguments(fs) ==
    IF fs = "RelationFilter"
    THEN MixinAlwaysAllowedArguments \cup {"entity", "label", "position"}
    ELSE MixinAlwaysAllowedArguments

\* the query parameter names requests are built from
QueryKeys ==
    {"fields", "format", "limit", "offset", "ordering", "entity", "label", "position",
     "name", "slug__in", "type", "category", "created__year", "bogus"}

RECURSIVE SubsetsUpTo(_, _)
SubsetsUpTo(S, n) ==
    IF n = 0 THEN {{}}
    ELSE LET smaller == SubsetsUpTo(S, n - 1)
         IN  smaller \cup {A \cup {x} : A \in smaller, x \in S}

\* ParseError(msg): msg names the unsupported parameters, then the allowed ones
ParseError(unallowed, allowed_params) ==
    [unsupported |-> unallowed, use |-> allowed_params]

\* validate_query_params: the errors of the form after the call
ValidateQueryParams(fs, params, errors) ==
    LET allowed_params == GetFilters(fs) \cup GetAlwaysAllowedArguments(fs)
        unallowed == params \ allowed_params
    IN  IF unallowed # {}
        THEN Append(errors, ParseError(unallowed, allowed_params))
        ELSE errors

\* FilterSet.is_valid of django_filters on a bound filterset: the form is valid
\* when it holds no error, of its fields or added
SuperIsValid(clean, errors) == clean /\ errors = << >>

FilterInitWith(sets, keys) ==
    /\ filterset \in sets
    /\ query_params \in keys
    /\ fieldsClean \in BOOLEAN
    /\ formErrors = << >>
    /\ validResult = "none"

FilterQuiet ==
    /\ filterset = "DescriptorSchemaFilter"
    /\ query_params = {}
    /\ fieldsClean = TRUE
    /\ formErrors = << >>
    /\ validResult = "none"

\* CheckQueryParamsMixin.is_valid
IsValid ==
    /\ Len(formErrors) < MaxValidations
    /\ LET errors == ValidateQueryParams(filterset, query_params, formErrors)
       IN  /\ formErrors' = errors
           /\ validResult' = IF SuperIsValid(fieldsClean, errors) THEN "valid" ELSE "invalid"
    /\ UNCHANGED <<filterset, query_params, fieldsClean>>
    /\ UNCHANGED <<bvars, rvars>>

FilterNext == IsValid

(***************************************************************************)
(* RelationSerializer.                                                     *)
(***************************************************************************)
\* entries of the "partitions" field of one request, and partitions a
\* relation holds before it
MaxParts == 2

Relations == {"r1", "r2"}
Categories == {"c1", "c2"}
Entities == {"e1", "e2"}
None == "None"

\* one entry of validated_data['relationpartition_set']: a dict with "entity",
\* with or without "label" and "position"
Entry ==
    {[entity |-> e] : e \in Entities}
    \cup {[entity |-> e, label |-> "L", position |-> "P"] : e \in Entities}

RECURSIVE EntryLists(_)
EntryLists(n) ==
    IF n = 0 THEN {<< >>}
    ELSE LET shorter == EntryLists(n - 1)
         IN  shorter \cup {Append(s, p) : s \in {x \in shorter : Len(x) = n - 1}, p \in Entry}

\* validated_data without the partitions: the fields to update
FieldData == {<< >>, [category |-> "c2"]}

\* where an exception is raised inside update(), if anywhere
FailPoints(partitions) ==
    {[stage |-> s, index |-> 0] : s \in {"none", "update", "delete"}}
    \cup {[stage |-> "create", index |-> i] : i \in 1..Len(partitions)}

\* partition.get(key, None)
Get(p, key) == IF key \in DOMAIN p THEN p[key] ELSE None

\* ModelSerializer.update: setattr for every item of validated_data, then save()
SuperUpdate(fields, instance, data) ==
    IF DOMAIN data = {} THEN fields
    ELSE [fields EXCEPT ![instance] = [category |-> data.category]]

\* instance.relationpartition_set.all().delete()
DeleteAll(rows, instance) == {r \in rows : r.relation # instance}

\* _create_partitions: one RelationPartition.objects.create per entry, in order;
\* failIndex is the entry whose create raises (0: none)
RECURSIVE CreatePartitions(_, _, _, _, _, _)
CreatePartitions(rows, id, instance, partitions, i, failIndex) ==
    IF i > Len(partitions) THEN [rows |-> rows, nextId |-> id, raised |-> FALSE]
    ELSE IF i = failIndex THEN [rows |-> rows, nextId |-> id, raised |-> TRUE]
    ELSE CreatePartitions(
             rows \cup {[id |-> id,
                         relation |-> instance,
                         entity |-> partitions[i]["entity"],
                         label |-> Get(partitions[i], "label"),
                         position |-> Get(partitions[i], "position")]},
             id + 1, instance, partitions, i + 1, failIndex)

\* the body of the "with transaction.atomic()" block of update()
UpdateBody(fields, rows, id, instance, data, partitions, failAt) ==
    IF failAt.stage = "update"
    THEN [fields |-> fields, rows |-> rows, nextId |-> id, raised |-> TRUE]
    ELSE LET updated == SuperUpdate(fields, instance, data)
         IN  IF failAt.stage = "delete"
             THEN [fields |-> updated, rows |-> rows, nextId |-> id, raised |-> TRUE]
             ELSE LET created == CreatePartitions(DeleteAll(rows, instance), id, instance,
                                                  partitions, 1, failAt.index)
                  IN  [fields |-> updated, rows |-> created.rows,
                       nextId |-> created.nextId, raised |-> created.raised]

\* Atomic without the transaction: what the body wrote stays
AtomicNoRollback(fields, rows, result) ==
    [fields |-> result.fields, rows |-> result.rows]

\* transaction.atomic(): an exception leaving the block rolls the tables back
\* to what they held when the block was entered
Atomic(fields, rows, result) ==
    IF result.raised
    THEN [fields |-> fields, rows |-> rows]
    ELSE [fields |-> result.fields, rows |-> result.rows]

NoUpdate == [outcome |-> "none"]

\* what the relation that is not updated may hold
BystanderLists == {<< >>, <<[entity |-> "e2", label |-> "L", position |-> "P"]>>}

\* the tables before the update: r1 and r2 each hold the partitions an earlier
\* create() or update() gave them
RelInitWith(lists1, lists2) ==
    /\ relFields = [r \in Relations |-> [category |-> "c1"]]
    /\ \E l1 \in lists1, l2 \in lists2 :
          LET first == CreatePartitions({}, 1, "r1", l1, 1, 0)
              second == CreatePartitions(first.rows, first.nextId, "r2", l2, 1, 0)
          IN  /\ parts = second.rows
              /\ nextId = second.nextId
    /\ last = NoUpdate

RelQuiet == RelInitWith({<< >>}, {<< >>})

\* RelationSerializer.update(instance, validated_data); supplied is FALSE when
\* validated_data holds no 'relationpartition_set'
Update(instance, data, supplied, entries, failAt) ==
    LET partitions == IF supplied THEN entries ELSE << >>
        result == UpdateBody(relFields, parts, nextId, instance, data, partitions, failAt)
        stored == Atomic(relFields, parts, result)
    IN  /\ relFields' = stored.fields
        /\ parts' = stored.rows
        /\ nextId' = result.nextId
        /\ last' = [outcome |-> IF result.raised THEN "error" ELSE "ok",
                    instance |-> instance, data |-> data, supplied |-> supplied,
                    partitions |-> partitions, failAt |-> failAt,
                    fields |-> relFields, rows |-> parts]
        /\ UNCHANGED <<bvars, fvars>>

RelNext ==
    /\ last = NoUpdate
    /\ \E instance \in Relations, data \in FieldData, supplied \in BOOLEAN,
          entries \in EntryLists(MaxParts) :
           \E failAt \in FailPoints(IF supplied THEN entries ELSE << >>) :
               /\ supplied \/ entries = << >>
               /\ Update(instance, data, supplied, entries, failAt)

(***************************************************************************)
(* Specifications.                                                         *)
(***************************************************************************)
\* the whole bootstrap, with the event loop
BootInit == BootInitWith(ModuleArgs, {SampleScript}) /\ FilterQuiet /\ RelQuiet
BootSpec == BootInit /\ [][BootNext]_vars

\* the script itself keeps going: a statement that can execute does; whether
\* the awaited coroutines, handles and tasks ever complete is left open
BootFairSpec ==
    /\ BootSpec
    /\ WF_vars(CallInit) /\ WF_vars(Resolve) /\ WF_vars(CallRun)
    /\ WF_vars(GatherLogging) /\ WF_vars(LogDrainReturn) /\ WF_vars(CallDeinit)
    /\ WF_vars(GatherAll) /\ WF_vars(FinalDrainReturn) /\ WF_vars(LoopClose)

\* and everything awaited completes, unless it fails
BootCompletingSpec ==
    /\ BootFairSpec
    /\ WF_vars(InitReturn) /\ WF_vars(RunReturn) /\ WF_vars(DeinitReturn)
    /\ \A h \in Handles : WF_vars(HandleDone(h))
    /\ \A t \in Tasks : WF_vars(TaskDone(t))

\* _sequential() alone, over every script file
SeqInit == BootInitWith(ModuleArgs, Contents) /\ FilterQuiet /\ RelQuiet
SeqSpec == SeqInit /\ [][SequentialNext]_vars

\* one filterset per behaviour
FilterInit ==
    /\ BootInitWith({"valid"}, {SampleScript})
    /\ FilterInitWith(Filtersets, SubsetsUpTo(QueryKeys, MaxParams))
    /\ RelQuiet
FilterSpec == FilterInit /\ [][FilterNext]_vars

\* updates of the relation tables
RelationInit ==
    /\ BootInitWith({"valid"}, {SampleScript})
    /\ FilterQuiet
    /\ RelInitWith(EntryLists(MaxParts), BystanderLists)
RelationSpec == RelationInit /\ [][RelNext]_vars

(***************************************************************************)
(* Properties of the executor bootstrap.                                   *)
(***************************************************************************)
Terminated == pc \in {"closed", "aborted"}

\* init has completed when run starts, and run has completed when deinit starts
BootOrder ==
    /\ calls["run"] > 0 => st["init"] = "done"
    /\ calls["deinit"] > 0 => st["init"] = "done" /\ st["run"] = "done"

\* C1 as stated: in every run with a module name that resolves, init and deinit
\* are each called exactly once, init before run and deinit after it.
C1_ExactlyOnceEveryRun ==
    moduleArg = "valid" =>
        /\ BootOrder
        /\ Terminated => calls["init"] = 1 /\ calls["deinit"] = 1

\* C1 amended: with a module name that resolves, init is called once, before
\* anything else, and has completed when run starts; deinit is called at most
\* once and only after run has completed: exactly once when the logging drain
\* has completed, and not at all in a run that ended before that.
C1_InitRunDeinitOrder ==
    moduleArg = "valid" =>
        /\ BootOrder
        /\ calls["init"] <= 1 /\ calls["run"] <= 1 /\ calls["deinit"] <= 1
        /\ pc # "start" => calls["init"] = 1
        /\ pc \in {"await_deinit", "gather_all", "await_all", "close", "closed"}
              => calls["deinit"] = 1
        /\ st["logdrain"] # "done" => calls["deinit"] = 0
        /\ abortedAt \in {"init", "resolve", "read", "run", "logdrain"} => calls["deinit"] = 0

C1_Witness ==
    /\ moduleArg = "valid"
    /\ pc = "closed"
    /\ calls["init"] = 1 /\ calls["run"] = 1 /\ calls["deinit"] = 1

\* C2 as stated: with an invalid module name, init is never invoked.
C2_NoInitWhenInvalid == moduleArg # "valid" => calls["init"] = 0

\* C2 amended: with an invalid module name the bootstrap fails in the executor
\* resolution, after manager init was called and completed; executor.run() and
\* manager deinit are never called.
C2_FailsBeforeRun ==
    moduleArg # "valid" =>
        /\ pc \in {"start", "await_init", "resolve", "aborted"}
        /\ abortedAt \in {"none", "init", "resolve"}
        /\ calls["run"] = 0 /\ ~runArgs.called
        /\ calls["deinit"] = 0
        /\ abortedAt = "resolve" => calls["init"] = 1 /\ st["init"] = "done"

C2_Witness ==
    /\ moduleArg = "no_class"
    /\ abortedAt = "resolve"
    /\ calls["init"] = 1

\* C3: when manager deinit starts, every handle appended to logging_future_list
\* so far has completed, those appended during the logging drain included.
C3_ListDrainedAtDeinit ==
    pc = "call_deinit" =>
        \A h \in Range(logging_future_list) : hstate[h] \in {"ok", "failed"}

\* C4: an exception of manager init, executor resolution, the script file read
\* or executor.run() ends the script there: the step is not started again and
\* the logging drain, manager deinit, the final drain and loop close do not run.
C4_FailureAborts ==
    /\ st["init"] = "failed" => abortedAt = "init"
    /\ st["run"] = "failed" => abortedAt = "run"
    /\ moduleArg # "valid" /\ pc \notin {"start", "await_init", "resolve"}
          => abortedAt \in {"init", "resolve"}
    /\ abortedAt \in {"init", "resolve", "read", "run"} =>
          /\ pc = "aborted"
          /\ calls["init"] = 1 /\ calls["run"] <= 1
          /\ calls["logdrain"] = 0 /\ calls["deinit"] = 0 /\ calls["finaldrain"] = 0
          /\ \A s \in {"logdrain", "deinit", "finaldrain"} : st[s] = "idle"

C4_Witness ==
    /\ abortedAt = "run"
    /\ pc = "aborted"
    /\ \E h \in Handles : hstate[h] = "pending"

\* C5 as stated: a failure in the logging drain or in the final drain changes
\* nothing: the script never ends on an exception of a drain.
C5_DrainFailureIgnored ==
    pc = "aborted" => abortedAt \in {"init", "resolve", "read", "run", "deinit"}

\* C5 amended: a gathered logging handle that finishes with an exception makes
\* the logging drain raise: the script ends there and manager deinit, the final
\* drain and loop close do not run; a gathered task that finishes with an
\* exception makes the final drain raise and the loop is not closed. A drain is
\* passed only when everything it gathered finished without exception.
C5_DrainFailureAborts ==
    /\ abortedAt = "logdrain" =>
          /\ pc = "aborted"
          /\ \E h \in drainSet : hstate[h] = "failed"
          /\ calls["deinit"] = 0 /\ calls["finaldrain"] = 0
    /\ abortedAt = "finaldrain" =>
          /\ pc = "aborted"
          /\ \E t \in finalSet : tstate[t] = "failed"
    /\ st["logdrain"] = "done" => \A h \in drainSet : hstate[h] = "ok"
    /\ st["finaldrain"] = "done" => \A t \in finalSet : tstate[t] = "ok"

C5_Witness ==
    /\ abortedAt = "logdrain"
    /\ calls["deinit"] = 0
    /\ \E h \in drainSet : hstate[h] = "failed"

\* C6: at most one of manager init, executor run, logging drain, manager deinit
\* and final drain is in progress, and each starts only after the one before it
\* has completed.
C6_OneStepAtATime ==
    /\ Cardinality({s \in Steps : st[s] = "running"}) <= 1
    /\ st["run"] # "idle" => st["init"] = "done"
    /\ st["logdrain"] # "idle" => st["run"] = "done"
    /\ st["deinit"] # "idle" => st["logdrain"] = "done"
    /\ st["finaldrain"] # "idle" => st["deinit"] = "done"

C6_Witness ==
    /\ st["finaldrain"] = "running"
    /\ PendingTasks # {}
    /\ \A s \in Steps \ {"finaldrain"} : st[s] = "done"

\* C9: when the loop is closed every step has completed and no task of the loop
\* is still pending.
C9_NothingPendingAtClose ==
    pc = "closed" =>
        /\ \A s \in Steps : st[s] = "done"
        /\ PendingTasks = {}

\* no step, handle or task ends with an exception
NothingFails ==
    /\ moduleArg = "valid"
    /\ abortedAt = "none"
    /\ \A h \in Handles : hstate[h] # "failed"
    /\ \A t \in Tasks : tstate[t] # "failed"

\* the part of C9 that holds: if everything awaited completes, and without
\* error, the loop is eventually closed
BootTerminates == []NothingFails => <>(pc = "closed")

\* and the loop is closed only after every step has completed
ClosedAfterEveryStep == pc = "closed" => \A s \in Steps : st[s] = "done"

(***************************************************************************)
(* Properties of run_executor().                                           *)
(***************************************************************************)
NewlineFree(s) == SelectSeq(s, LAMBDA c : c \notin {"CR", "LF"})

CrLfPairs(s) == {i \in 1..(Len(s) - 1) : s[i] = "CR" /\ s[i + 1] = "LF"}

\* C7 as stated: run receives DATA["id"] and the file content, character for
\* character.
C7_ScriptVerbatim ==
    runArgs.called => runArgs.id = DataId /\ runArgs.script = fileContent

\* C7 amended: run receives DATA["id"] and the file content as text mode reads
\* it: every "\r\n" and every other "\r" arrives as "\n" and nothing else is
\* changed; a content without "\r" arrives character for character.
C7_ScriptNewlineTranslated ==
    runArgs.called =>
        /\ runArgs.id = DataId
        /\ "CR" \notin Range(fileContent) => runArgs.script = fileContent
        /\ "CR" \notin Range(runArgs.script)
        /\ NewlineFree(runArgs.script) = NewlineFree(fileContent)
        /\ Len(runArgs.script) = Len(fileContent) - Cardinality(CrLfPairs(fileContent))

C7_Witness ==
    /\ runArgs.called
    /\ fileContent = <<"CR", "LF">>
    /\ runArgs.script = <<"LF">>

(***************************************************************************)
(* Properties of CheckQueryParamsMixin.                                    *)
(***************************************************************************)
\* the parameters C8 allows besides the names of the filters
C8_AlwaysAllowed(fs) ==
    {"fields", "format", "limit", "offset", "ordering"}
    \cup (IF fs = "RelationFilter" THEN {"entity", "label", "position"} ELSE {})

C8_Unsupported == query_params \ (GetFilters(filterset) \cup C8_AlwaysAllowed(filterset))

\* C8: after is_valid(), the filterset is valid only if every query parameter
\* is a filter name or an always-allowed argument; otherwise the form holds a
\* ParseError naming exactly the unsupported parameters and is_valid() returned
\* False; with no unsupported parameter no error was added.
C8_QueryParamsChecked ==
    validResult # "none" =>
        /\ validResult = "valid" => C8_Unsupported = {}
        /\ C8_Unsupported # {} =>
              /\ validResult = "invalid"
              /\ formErrors # << >>
              /\ \A i \in DOMAIN formErrors : formErrors[i].unsupported = C8_Unsupported
        /\ C8_Unsupported = {} => formErrors = << >>

C8_Witness ==
    /\ filterset = "RelationFilter"
    /\ query_params = {"entity", "name", "bogus"}
    /\ fieldsClean
    /\ validResult = "invalid"
    /\ Len(formErrors) = 1

(***************************************************************************)
(* Properties of RelationSerializer.update.                                *)
(***************************************************************************)
\* the row C10 expects for one supplied entry
C10_Matches(row, entry) ==
    /\ row.relation = last.instance
    /\ row.entity = entry.entity
    /\ row.label = (IF "label" \in DOMAIN entry THEN entry.label ELSE None)
    /\ row.position = (IF "position" \in DOMAIN entry THEN entry.position ELSE None)

\* C10: after a successful update the relation holds exactly one partition per
\* supplied entry and none of its previous ones (none at all when no partitions
\* were supplied); after a failed one the fields and the partitions are what
\* they were before.
C10_UpdateAtomic ==
    last.outcome # "none" =>
        LET mine == {r \in parts : r.relation = last.instance}
            n == Len(last.partitions)
        IN  IF last.outcome = "ok"
            THEN /\ mine \cap last.rows = {}
                 /\ Cardinality(mine) = n
                 /\ \E f \in [1..n -> mine] :
                       /\ \A i, j \in 1..n : i # j => f[i] # f[j]
                       /\ \A i \in 1..n : C10_Matches(f[i], last.partitions[i])
                 /\ ~last.supplied => mine = {}
                 /\ {r \in parts : r.relation # last.instance}
                        = {r \in last.rows : r.relation # last.instance}
            ELSE /\ relFields = last.fields
                 /\ parts = last.rows

C10_Witness ==
    /\ last.outcome = "error"
    /\ last.failAt = [stage |-> "create", index |-> 2]
    /\ last.data = [category |-> "c2"]
    /\ relFields[last.instance].category = "c1"
    /\ Cardinality({r \in parts : r.relation = last.instance}) = 2

====
